---- MODULE Spec2Model ----
(***************************************************************************)
(* State-machine model of the fpl-rs client (src/src/lib.rs).              *)
(*                                                                         *)
(* One Fpl value is driven by a set of callers.  Every public method is    *)
(* an async fn: it runs without interruption up to an .await of fetch,     *)
(* where it is suspended until the response of its GET arrives.  A method  *)
(* borrows the client for the whole call: `&mut self` methods exclusively, *)
(* `&self` methods shared.  The record `last` keeps the most recently      *)
(* returned call with everything it sent, received and delivered.          *)
(***************************************************************************)
EXTENDS Integers, Sequences, FiniteSets, TLC

\* ------------------------------------------------------------------ bounds
NCallers == 2
MaxCalls == 2

Callers == 1..NCallers

\* ------------------------------------------------------- Option and Result
None == <<>>
Some(x) == <<x>>

Ok(v) == [kind |-> "Ok", val |-> v]
Err(e) == [kind |-> "Err", val |-> e]
\* an unwinding panic raised by Option::expect, with its message
Panic(m) == [kind |-> "Panic", val |-> m]

\* ------------------------------------------------------------------- urls
\* a url is the endpoint path with its (at most two) integer parameters
Url(path, a, b) == [path |-> path, a |-> a, b |-> b]
NoUrl == Url("", 0, 0)

BootstrapStaticUrl == Url("api/bootstrap-static/", 0, 0)
FixturesUrl == Url("api/fixtures/", 0, 0)
GameweekFixturesUrl(gameweek_id) == Url("api/fixtures/?event={}", gameweek_id, 0)

\* mutant: the url names a fixed entry, not the requested one
UserUrl_Fixed(user_id) == Url("api/entry/{}/", 1, 0)

UserUrl(user_id) == Url("api/entry/{}/", user_id, 0)
LiveGameweekUrl(gameweek_id) == Url("api/event/{}/live", gameweek_id, 0)
ClassicLeagueUrl(league_id) == Url("api/leagues-classic/{}/standings/", league_id, 0)
H2HLeagueUrl(league_id) == Url("api/leagues-h2h-matches/league/{}/", league_id, 0)
UserPicksUrl(user_id, gameweek_id) == Url("api/entry/{}/event/{}/picks/", user_id, gameweek_id)

\* --------------------------------------------------------------- FplError
\* A string built by format!: the format and the values formatted into it
\* (a url, an error text, a status code), or a literal with none of them.
Format(fmt, url, err, code) == [fmt |-> fmt, url |-> url, err |-> err, code |-> code]
Literal(text) == Format(text, NoUrl, "", 0)

\* FplError::from(&str): the error carries the string in msg and nothing else
FplError(msg) == [msg |-> msg]

\* --------------------------------------------------------- upstream data
Team(id, name) == [id |-> id, name |-> name]
Player(id, team) == [id |-> id, team |-> team]
Event(id, name) == [id |-> id, name |-> name]
BootstrapStatic(events, teams, elements) ==
    [events |-> events, teams |-> teams, elements |-> elements]

\* the static dataset as the upstream may serve it
Snapshots ==
    { BootstrapStatic(<<Event(1, "Gameweek 1"), Event(2, "Gameweek 2")>>,
                      <<Team(1, "Arsenal"), Team(2, "Aston Villa")>>,
                      <<Player(1, 1), Player(2, 2)>>),
      BootstrapStatic(<<Event(2, "Gameweek 2"), Event(1, "Gameweek 1"), Event(2, "Gameweek 2b")>>,
                      <<Team(2, "Aston Villa"), Team(1, "Arsenal"), Team(2, "Villa")>>,
                      <<Player(2, 9), Player(1, 1), Player(2, 2)>>) }

Fixture(id, event, team_h, team_a, team_h_score, team_a_score) ==
    [id |-> id, event |-> event, team_h |-> team_h, team_a |-> team_a,
     team_h_score |-> team_h_score, team_a_score |-> team_a_score]

\* fixture lists as the upstream may serve them, for either fixtures url
FixtureLists ==
    { <<>>,
      <<Fixture(1, Some(1), 14, 3, None, None)>>,
      <<Fixture(1, Some(1), 14, 3, Some(2), Some(0))>>,
      <<Fixture(1, None, 14, 3, None, None)>>,
      <<Fixture(2, Some(2), 5, 6, None, None),
        Fixture(1, Some(2), 14, 3, None, None),
        Fixture(1, Some(1), 7, 8, None, None)>>,
      <<Fixture(1, None, 14, 3, None, None),
        Fixture(1, Some(1), 14, 3, None, None)>> }

\* ----------------------------------------------------- transport, decoder
StatusOK == 200
StatusCodes == {200, 404}

\* texts of the reqwest errors of send() and of json()
TransportErrs == {"error sending request"}
DecodeErrs == {"error decoding response body"}

\* a body is JSON of some shape, or not decodable into any shape
Body(shape, val) == <<shape, val>>
Garbage == <<>>

\* the bodies the upstream may serve for a url whose method expects shape T
BodiesOf(T) ==
    {Garbage} \cup
    CASE T = "BootstrapStatic" -> {Body(T, s) : s \in Snapshots}
      [] T = "Fixtures" -> {Body(T, l) : l \in FixtureLists}
      [] OTHER -> {Body(T, [id |-> i]) : i \in 1..2}

\* what the transport gives back for one GET: send() failed with an error,
\* or a response with a status and a body
SendErr(e) == [sent |-> FALSE, err |-> e, status |-> 0, body |-> Garbage]
Response(status, body) == [sent |-> TRUE, err |-> "", status |-> status, body |-> body]

\* a body served with a status that is not OK: not JSON, or JSON of shape T
ErrorBodiesOf(T) == {Garbage, CHOOSE b \in BodiesOf(T) : b # Garbage}

Responses(T) ==
    {SendErr(e) : e \in TransportErrs} \cup
    {Response(StatusOK, b) : b \in BodiesOf(T)} \cup
    {Response(s, b) : s \in StatusCodes \ {StatusOK}, b \in ErrorBodiesOf(T)}

\* response.json::<T>(): the decoded value, or the decoder's error
json(T, body) ==
    IF body # Garbage /\ body[1] = T THEN Ok(body[2])
    ELSE Err(CHOOSE e \in DecodeErrs : TRUE)

\* let error_message = format!("Failed when making request to: {}", url)
\* and the three formats that extend it
SendFailed(url, err) ==
    Format("Failed when making request to: {} with this error: {}", url, err, 0)
DecodeFailed(url, err) ==
    Format("Failed when making request to: {} with this error: {}", url, err, 0)
StatusFailed(url, code) ==
    Format("Failed when making request to: {} with this status code: {}", url, "", code)

\* mutant: the body is decoded before the status is looked at
fetch_DecodeFirst(T, url, resp) ==
    IF ~resp.sent
    THEN Err(FplError(SendFailed(url, resp.err)))
    ELSE LET parsed == json(T, resp.body) IN
         IF parsed.kind = "Err" THEN Err(FplError(DecodeFailed(url, parsed.val)))
         ELSE IF resp.status = StatusOK THEN Ok(parsed.val)
         ELSE Err(FplError(StatusFailed(url, resp.status)))

\* The outcome of fetch::<T>(url) given what the transport gave back.
fetch(T, url, resp) ==
    IF ~resp.sent
    THEN Err(FplError(SendFailed(url, resp.err)))
    ELSE IF resp.status = StatusOK
         THEN LET parsed == json(T, resp.body) IN
              IF parsed.kind = "Ok" THEN Ok(parsed.val)
              ELSE Err(FplError(DecodeFailed(url, parsed.val)))
         ELSE Err(FplError(StatusFailed(url, resp.status)))

\* ------------------------------------------------------------------ state
VARIABLES
    bootstrap_static,  \* Fpl.bootstrap_static: None or Some(BootstrapStatic)
    pc,                \* per caller: "idle", or the .await its call is suspended at
    op,                \* per caller: the method of its call in progress
    arg,               \* per caller: the integer arguments of that call
    hit,               \* per caller: the slot was populated when that call was entered
    local,             \* per caller: gameweek_id held by get_fixture across its second await
    sent,              \* per caller: urls of the GETs that call has issued, in order
    rcvd,              \* per caller: what the transport gave back for them, in order
    used,              \* per caller: the BootstrapStatic its latest successful
                       \*   snapshot-backed call read its result from
    last,              \* the call that returned most recently
    calls,             \* number of calls started
    static_gets,       \* number of GETs issued to the bootstrap-static url
    static_fails,      \* number of those whose fetch returned Err
    other_bootstrap_static,  \* bootstrap_static of a second Fpl::new() client
    other_pc,          \* "idle", or the .await the second client's call is suspended at
    other_gets,        \* number of GETs the second client issued to the bootstrap-static url
    other_hits         \* number of its calls that took the cached arm

\* the state of the second client
other == <<other_bootstrap_static, other_pc, other_gets, other_hits>>

vars == <<bootstrap_static, pc, op, arg, hit, local, sent, rcvd, used, last,
          calls, static_gets, static_fails, other>>

NoRet == [kind |-> "None", val |-> <<>>]

Call(c, o, a, h, s, r, v) ==
    [caller |-> c, op |-> o, arg |-> a, hit |-> h, sent |-> s, rcvd |-> r, ret |-> v]
NoCall == Call(0, "new", <<>>, FALSE, <<>>, <<>>, NoRet)

\* methods that read through Fpl.bootstrap_static
SnapshotOps == {"get_bootstrap_static", "get_team", "get_teams", "get_all_teams",
                "get_player", "get_players", "get_all_players",
                "get_static_gameweek", "get_static_gameweeks"}

\* methods that are one fetch of one url
FetchOps == {"get_user", "get_fixtures", "get_gameweek_fixtures", "get_live_gameweek",
             "get_classic_league", "get_h2h_league", "get_user_picks"}

\* mutant: the snapshot-backed methods take `&self` (the slot behind
\* interior mutability)
MutSelf_Shared(o) == o = "get_fixture"

\* receiver of each method: TRUE for `&mut self`, FALSE for `&self`
MutSelf(o) == o \in SnapshotOps \cup {"get_fixture"}

\* mutant: no borrow is checked
CanBorrow_Unchecked(c, o) == TRUE

\* the borrow rules for a caller that wants to call method o: a `&mut self`
\* call needs the client unborrowed, a `&self` call needs it not mutably
\* borrowed
CanBorrow(c, o) ==
    IF MutSelf(o)
    THEN \A d \in Callers : pc[d] = "idle"
    ELSE \A d \in Callers : pc[d] # "idle" => ~MutSelf(op[d])

\* argument values
Ids == 1..3
IdLists == {<<>>, <<1>>, <<2, 1>>, <<3, 1>>, <<1, 2>>, <<1, 1>>}
Args == 1..2

Init ==
    /\ bootstrap_static = None
    /\ pc = [c \in Callers |-> "idle"]
    /\ op = [c \in Callers |-> "new"]
    /\ arg = [c \in Callers |-> <<>>]
    /\ hit = [c \in Callers |-> FALSE]
    /\ local = [c \in Callers |-> 0]
    /\ sent = [c \in Callers |-> <<>>]
    /\ rcvd = [c \in Callers |-> <<>>]
    /\ used = [c \in Callers |-> None]
    /\ last = NoCall
    /\ calls = 0
    /\ static_gets = 0
    /\ static_fails = 0
    /\ other_bootstrap_static = None
    /\ other_pc = "idle"
    /\ other_gets = 0
    /\ other_hits = 0

\* ------------------------------------------------------ derived accessors
\* mutant: the last element is taken
first_Last(s) == IF s = <<>> THEN None ELSE Some(s[Len(s)])

\* Vec::first().cloned()
first(s) == IF s = <<>> THEN None ELSE Some(s[1])

\* mutant: only the first requested id is looked at
contains_First(ids, x) == ids # <<>> /\ ids[1] = x

contains(ids, x) == \E i \in DOMAIN ids : ids[i] = x

HasId(x, id) == x.id = id
HasIdIn(x, ids) == contains(ids, x.id)

\* mutant: the by-id filter is dropped, the first record is taken
FilterId_All(s, id) == s

\* mutant: the by-ids filter stops at its first match
FilterIds_FirstOnly(s, ids) ==
    LET r == SelectSeq(s, LAMBDA x : HasIdIn(x, ids)) IN
    IF r = <<>> THEN r ELSE <<r[1]>>

\* mutant: one pass over the records per requested id (lists of up to two
\* ids), the results in the order of the requested ids
FilterIds_PerId(s, ids) ==
    IF ids = <<>> THEN <<>>
    ELSE IF Len(ids) = 1 THEN SelectSeq(s, LAMBDA x : HasId(x, ids[1]))
    ELSE SelectSeq(s, LAMBDA x : HasId(x, ids[1])) \o
         SelectSeq(s, LAMBDA x : HasId(x, ids[2]))

\* the filter(..).collect() chains of the accessors
FilterId(s, id) == SelectSeq(s, LAMBDA x : HasId(x, id))
FilterIds(s, ids) == SelectSeq(s, LAMBDA x : HasIdIn(x, ids))

\* mutant: get_teams without its `x if x.is_empty()` arm
Derived_NoEmptyArm(o, a, b) ==
    CASE o = "get_bootstrap_static" -> b
      [] o = "get_team" -> first(FilterId(b.teams, a[1]))
      [] o = "get_teams" -> FilterIds(b.teams, a)
      [] o = "get_all_teams" -> b.teams
      [] o = "get_player" -> first(FilterId(b.elements, a[1]))
      [] o = "get_players" -> FilterIds(b.elements, a)
      [] o = "get_all_players" -> b.elements
      [] o = "get_static_gameweek" -> first(FilterId(b.events, a[1]))
      [] o = "get_static_gameweeks" -> b.events

\* mutant: the whole-collection accessors skip the first record
Derived_SkipFirst(o, a, b) ==
    CASE o = "get_bootstrap_static" -> b
      [] o = "get_team" -> first(FilterId(b.teams, a[1]))
      [] o = "get_teams" -> IF a = <<>> THEN b.teams ELSE FilterIds(b.teams, a)
      [] o = "get_all_teams" -> Tail(b.teams)
      [] o = "get_player" -> first(FilterId(b.elements, a[1]))
      [] o = "get_players" -> FilterIds(b.elements, a)
      [] o = "get_all_players" -> Tail(b.elements)
      [] o = "get_static_gameweek" -> first(FilterId(b.events, a[1]))
      [] o = "get_static_gameweeks" -> Tail(b.events)

\* what method o with arguments a computes from the BootstrapStatic b
Derived(o, a, b) ==
    CASE o = "get_bootstrap_static" -> b
      [] o = "get_team" -> first(FilterId(b.teams, a[1]))
      [] o = "get_teams" -> IF a = <<>> THEN b.teams ELSE FilterIds(b.teams, a)
      [] o = "get_all_teams" -> b.teams
      [] o = "get_player" -> first(FilterId(b.elements, a[1]))
      [] o = "get_players" -> FilterIds(b.elements, a)
      [] o = "get_all_players" -> b.elements
      [] o = "get_static_gameweek" -> first(FilterId(b.events, a[1]))
      [] o = "get_static_gameweeks" -> b.events

\* ---------------------------------------------------------------- actions
\* caller c enters method o with arguments a
Enter(c, o, a) ==
    /\ calls < MaxCalls
    /\ pc[c] = "idle"
    /\ CanBorrow(c, o)
    /\ calls' = calls + 1
    /\ op' = [op EXCEPT ![c] = o]
    /\ arg' = [arg EXCEPT ![c] = a]
    /\ hit' = [hit EXCEPT ![c] = bootstrap_static # None]

\* the method issues its GET of url and is suspended at `at`
Await(c, url, at) ==
    /\ pc' = [pc EXCEPT ![c] = at]
    /\ sent' = [sent EXCEPT ![c] = Append(@, url)]

\* the method, having received rs since it was entered, returns v to its
\* caller and its borrow of the client ends
Return(c, rs, v) ==
    /\ last' = Call(c, op[c], arg[c], hit[c], sent[c], rs, v)
    /\ pc' = [pc EXCEPT ![c] = "idle"]
    /\ op' = [op EXCEPT ![c] = "new"]
    /\ arg' = [arg EXCEPT ![c] = <<>>]
    /\ hit' = [hit EXCEPT ![c] = FALSE]
    /\ local' = [local EXCEPT ![c] = 0]
    /\ sent' = [sent EXCEPT ![c] = <<>>]
    /\ rcvd' = [rcvd EXCEPT ![c] = <<>>]

\* mutant: the cached arm is never taken
SlotHit_Refetch == FALSE

\* The cached arm of get_bootstrap_static and of the `match
\* &self.bootstrap_static` of every derived accessor
SlotHit == bootstrap_static # None

\* A snapshot-backed method o(a) up to its first suspension: with the slot
\* populated it returns what it derives from the slot; with the slot empty
\* it reaches get_bootstrap_static's fetch.
SnapshotCall(c, o, a) ==
    /\ calls < MaxCalls
    /\ pc[c] = "idle"
    /\ CanBorrow(c, o)
    /\ calls' = calls + 1
    /\ IF SlotHit
       THEN /\ last' = Call(c, o, a, bootstrap_static # None, <<>>, <<>>,
                            Ok(Derived(o, a, bootstrap_static[1])))
            /\ used' = [used EXCEPT ![c] = bootstrap_static]
            /\ UNCHANGED <<pc, op, arg, hit, sent, static_gets>>
       ELSE /\ op' = [op EXCEPT ![c] = o]
            /\ arg' = [arg EXCEPT ![c] = a]
            /\ hit' = [hit EXCEPT ![c] = bootstrap_static # None]
            /\ Await(c, BootstrapStaticUrl, "bootstrap_static")
            /\ static_gets' = static_gets + 1
            /\ UNCHANGED <<used, last>>
    /\ UNCHANGED <<bootstrap_static, local, rcvd, static_fails, other>>

get_bootstrap_static(c) == SnapshotCall(c, "get_bootstrap_static", <<>>)
get_team(c, team_id) == SnapshotCall(c, "get_team", <<team_id>>)
get_teams(c, team_ids) == SnapshotCall(c, "get_teams", team_ids)
get_all_teams(c) == SnapshotCall(c, "get_all_teams", <<>>)
get_player(c, player_id) == SnapshotCall(c, "get_player", <<player_id>>)
get_players(c, player_ids) == SnapshotCall(c, "get_players", player_ids)
get_all_players(c) == SnapshotCall(c, "get_all_players", <<>>)
get_static_gameweek(c, gameweek_id) == SnapshotCall(c, "get_static_gameweek", <<gameweek_id>>)
get_static_gameweeks(c) == SnapshotCall(c, "get_static_gameweeks", <<>>)

\* mutant: the fetched value is returned without being stored
Stored_Never(r) == bootstrap_static

\* mutant: a failed fetch leaves an empty dataset in the slot
Stored_Partial(r) ==
    IF r.kind = "Ok" THEN Some(r.val) ELSE Some(BootstrapStatic(<<>>, <<>>, <<>>))

\* mutant: the dataset is stored without its players
Stored_Stripped(r) ==
    IF r.kind = "Ok"
    THEN Some(BootstrapStatic(r.val.events, r.val.teams, <<>>))
    ELSE bootstrap_static

\* what get_bootstrap_static stores in the slot after a fetch that returned r
\* (the `?` returns before the store when r is an Err)
Stored(r) == IF r.kind = "Ok" THEN Some(r.val) ELSE bootstrap_static

\* mutant: a derived accessor replaces the failure of the fetch by its own
bootstrap_static_fetched_Downgrade(c) ==
    /\ pc[c] = "bootstrap_static"
    /\ \E resp \in Responses("BootstrapStatic") :
         LET r == fetch("BootstrapStatic", BootstrapStaticUrl, resp) IN
         /\ bootstrap_static' = Stored(r)
         /\ IF r.kind = "Ok"
            THEN /\ Return(c, Append(rcvd[c], resp), Ok(Derived(op[c], arg[c], r.val)))
                 /\ used' = [used EXCEPT ![c] = Some(r.val)]
                 /\ UNCHANGED static_fails
            ELSE /\ Return(c, Append(rcvd[c], resp),
                           IF op[c] = "get_bootstrap_static" THEN r
                           ELSE Err(FplError(Literal("Failed when parsing fixtures response."))))
                 /\ static_fails' = static_fails + 1
                 /\ UNCHANGED used
    /\ UNCHANGED <<calls, static_gets, other>>

\* The fetch of get_bootstrap_static completes: on Ok the value is stored
\* in the slot and the suspended accessor derives its result from it; on
\* Err the error is returned through every frame.
bootstrap_static_fetched(c) ==
    /\ pc[c] = "bootstrap_static"
    /\ \E resp \in Responses("BootstrapStatic") :
         LET r == fetch("BootstrapStatic", BootstrapStaticUrl, resp) IN
         /\ bootstrap_static' = Stored(r)
         /\ IF r.kind = "Ok"
            THEN /\ Return(c, Append(rcvd[c], resp), Ok(Derived(op[c], arg[c], r.val)))
                 /\ used' = [used EXCEPT ![c] = Some(r.val)]
                 /\ UNCHANGED static_fails
            ELSE /\ Return(c, Append(rcvd[c], resp), r)
                 /\ static_fails' = static_fails + 1
                 /\ UNCHANGED used
    /\ UNCHANGED <<calls, static_gets, other>>

\* the url and the expected shape of each one-fetch method
UrlOf(o, a) ==
    CASE o = "get_user" -> UserUrl(a[1])
      [] o = "get_fixtures" -> FixturesUrl
      [] o = "get_gameweek_fixtures" -> GameweekFixturesUrl(a[1])
      [] o = "get_live_gameweek" -> LiveGameweekUrl(a[1])
      [] o = "get_classic_league" -> ClassicLeagueUrl(a[1])
      [] o = "get_h2h_league" -> H2HLeagueUrl(a[1])
      [] o = "get_user_picks" -> UserPicksUrl(a[1], a[2])

ShapeOf(o) ==
    CASE o = "get_user" -> "User"
      [] o = "get_fixtures" -> "Fixtures"
      [] o = "get_gameweek_fixtures" -> "Fixtures"
      [] o = "get_live_gameweek" -> "Gameweek"
      [] o = "get_classic_league" -> "ClassicLeague"
      [] o = "get_h2h_league" -> "H2HLeague"
      [] o = "get_user_picks" -> "UserPicks"

\* A one-fetch method o(a): build the url, issue the GET, await fetch.
FetchCall(c, o, a) ==
    /\ Enter(c, o, a)
    /\ Await(c, UrlOf(o, a), "fetch")
    /\ UNCHANGED <<bootstrap_static, local, rcvd, used, last, static_gets, static_fails, other>>

get_user(c, user_id) == FetchCall(c, "get_user", <<user_id>>)
get_fixtures(c) == FetchCall(c, "get_fixtures", <<>>)
get_gameweek_fixtures(c, gameweek_id) == FetchCall(c, "get_gameweek_fixtures", <<gameweek_id>>)
\* mutant: the value of the last successful call for the gameweek is kept
\* and returned without a request
get_live_gameweek_Memoized(c, gameweek_id) ==
    IF last.op = "get_live_gameweek" /\ last.arg = <<gameweek_id>> /\ last.ret.kind = "Ok"
    THEN /\ calls < MaxCalls
         /\ pc[c] = "idle"
         /\ calls' = calls + 1
         /\ last' = Call(c, "get_live_gameweek", <<gameweek_id>>,
                         bootstrap_static # None, <<>>, <<>>, last.ret)
         /\ UNCHANGED <<bootstrap_static, pc, op, arg, hit, local, sent, rcvd,
                        used, static_gets, static_fails, other>>
    ELSE FetchCall(c, "get_live_gameweek", <<gameweek_id>>)

get_live_gameweek(c, gameweek_id) == FetchCall(c, "get_live_gameweek", <<gameweek_id>>)
get_classic_league(c, league_id) == FetchCall(c, "get_classic_league", <<league_id>>)
get_h2h_league(c, league_id) == FetchCall(c, "get_h2h_league", <<league_id>>)
get_user_picks(c, user_id, gameweek_id) == FetchCall(c, "get_user_picks", <<user_id, gameweek_id>>)

\* mutant: a failed GET is issued once more before the failure is returned
fetched_Retry(c) ==
    /\ pc[c] = "fetch"
    /\ \E resp \in Responses(ShapeOf(op[c])) :
         LET r == fetch(ShapeOf(op[c]), UrlOf(op[c], arg[c]), resp) IN
         IF r.kind = "Err" /\ Len(sent[c]) < 2
         THEN /\ rcvd' = [rcvd EXCEPT ![c] = Append(@, resp)]
              /\ Await(c, UrlOf(op[c], arg[c]), "fetch")
              /\ UNCHANGED <<op, arg, hit, local, last>>
         ELSE Return(c, Append(rcvd[c], resp), r)
    /\ UNCHANGED <<bootstrap_static, used, calls, static_gets, static_fails, other>>

\* `return self.fetch(url).await`: the method returns what fetch returns
fetched(c) ==
    /\ pc[c] = "fetch"
    /\ \E resp \in Responses(ShapeOf(op[c])) :
         Return(c, Append(rcvd[c], resp),
                fetch(ShapeOf(op[c]), UrlOf(op[c], arg[c]), resp))
    /\ UNCHANGED <<bootstrap_static, used, calls, static_gets, static_fails, other>>

\* ------------------------------------------------------------ get_fixture
ParseFailed == Literal("Failed when parsing fixtures response.")

\* get_fixture up to its first await: self.get_fixtures()
get_fixture(c, fixture_id) ==
    /\ Enter(c, "get_fixture", <<fixture_id>>)
    /\ Await(c, FixturesUrl, "all_fixtures")
    /\ UNCHANGED <<bootstrap_static, local, rcvd, used, last, static_gets, static_fails, other>>

\* mutant: the fixture id is taken for the gameweek id
GameweekIdOf_FixtureId(all_fixtures, fixture_id) ==
    LET f == first(FilterId(all_fixtures, fixture_id)) IN
    IF f = None THEN Panic(ParseFailed)
    ELSE IF f[1].event = None THEN Panic(ParseFailed)
    ELSE Ok(fixture_id)

\* mutant: records without an event are passed over
GameweekIdOf_SkipNoEvent(all_fixtures, fixture_id) ==
    LET f == first(SelectSeq(all_fixtures,
                             LAMBDA x : HasId(x, fixture_id) /\ x.event # None)) IN
    IF f = None THEN Panic(ParseFailed)
    ELSE Ok(f[1].event[1])

\* let gameweek_id = all_fixtures...filter(id)...first().expect(..).event.expect(..)
\* Ok(g), or the panic of the expect that met a None
GameweekIdOf(all_fixtures, fixture_id) ==
    LET f == first(FilterId(all_fixtures, fixture_id)) IN
    IF f = None THEN Panic(ParseFailed)
    ELSE IF f[1].event = None THEN Panic(ParseFailed)
    ELSE Ok(f[1].event[1])

\* get_fixture from the first await to the second: `?` on the unscoped
\* list, gameweek_id, then self.get_gameweek_fixtures(gameweek_id)
all_fixtures_fetched(c) ==
    /\ pc[c] = "all_fixtures"
    /\ \E resp \in Responses("Fixtures") :
         LET r == fetch("Fixtures", FixturesUrl, resp) IN
         IF r.kind = "Err"
         THEN Return(c, Append(rcvd[c], resp), r)
         ELSE LET g == GameweekIdOf(r.val, arg[c][1]) IN
              IF g.kind = "Panic"
              THEN Return(c, Append(rcvd[c], resp), g)
              ELSE /\ rcvd' = [rcvd EXCEPT ![c] = Append(@, resp)]
                   /\ local' = [local EXCEPT ![c] = g.val]
                   /\ Await(c, GameweekFixturesUrl(g.val), "gameweek_fixtures")
                   /\ UNCHANGED <<op, arg, hit, last>>
    /\ UNCHANGED <<bootstrap_static, used, calls, static_gets, static_fails, other>>

\* mutant: the missing fixture is unwrapped with expect as in the first step
Resolve_Expect(gameweek_fixtures, fixture_id) ==
    LET f == first(FilterId(gameweek_fixtures, fixture_id)) IN
    IF f # None THEN Ok(f[1]) ELSE Panic(ParseFailed)

\* mutant: the scoped list is not filtered by the fixture id
Resolve_NoFilter(gameweek_fixtures, fixture_id) ==
    LET f == first(gameweek_fixtures) IN
    IF f # None THEN Ok(f[1]) ELSE Err(FplError(ParseFailed))

\* match fixture.first() of the list scoped to the gameweek
Resolve(gameweek_fixtures, fixture_id) ==
    LET f == first(FilterId(gameweek_fixtures, fixture_id)) IN
    IF f # None THEN Ok(f[1]) ELSE Err(FplError(ParseFailed))

\* mutant: after a failed second GET the method starts over from its first
gameweek_fixtures_fetched_Restart(c) ==
    /\ pc[c] = "gameweek_fixtures"
    /\ \E resp \in Responses("Fixtures") :
         LET r == fetch("Fixtures", GameweekFixturesUrl(local[c]), resp) IN
         IF r.kind = "Err"
         THEN IF Len(sent[c]) < 3
              THEN /\ rcvd' = [rcvd EXCEPT ![c] = Append(@, resp)]
                   /\ Await(c, FixturesUrl, "all_fixtures")
                   /\ UNCHANGED <<op, arg, hit, local, last>>
              ELSE Return(c, Append(rcvd[c], resp), r)
         ELSE Return(c, Append(rcvd[c], resp), Resolve(r.val, arg[c][1]))
    /\ UNCHANGED <<bootstrap_static, used, calls, static_gets, static_fails, other>>

\* mutant: holding the client mutably, the method clears the slot
gameweek_fixtures_fetched_Clear(c) ==
    /\ pc[c] = "gameweek_fixtures"
    /\ \E resp \in Responses("Fixtures") :
         LET r == fetch("Fixtures", GameweekFixturesUrl(local[c]), resp) IN
         IF r.kind = "Err"
         THEN Return(c, Append(rcvd[c], resp), r)
         ELSE Return(c, Append(rcvd[c], resp), Resolve(r.val, arg[c][1]))
    /\ bootstrap_static' = None
    /\ UNCHANGED <<used, calls, static_gets, static_fails, other>>

\* get_fixture from the second await to its return
gameweek_fixtures_fetched(c) ==
    /\ pc[c] = "gameweek_fixtures"
    /\ \E resp \in Responses("Fixtures") :
         LET r == fetch("Fixtures", GameweekFixturesUrl(local[c]), resp) IN
         IF r.kind = "Err"
         THEN Return(c, Append(rcvd[c], resp), r)
         ELSE Return(c, Append(rcvd[c], resp), Resolve(r.val, arg[c][1]))
    /\ UNCHANGED <<bootstrap_static, used, calls, static_gets, static_fails, other>>

\* ------------------------------------------------------------------- spec
\* the steps of the calls of one caller
Step(c) ==
    \/ get_bootstrap_static(c)
    \/ \E id \in Ids : get_team(c, id)
    \/ \E ids \in IdLists : get_teams(c, ids)
    \/ get_all_teams(c)
    \/ \E id \in Ids : get_player(c, id)
    \/ \E ids \in IdLists : get_players(c, ids)
    \/ get_all_players(c)
    \/ \E id \in Ids : get_static_gameweek(c, id)
    \/ get_static_gameweeks(c)
    \/ bootstrap_static_fetched(c)
    \/ \E id \in Args : get_user(c, id)
    \/ get_fixtures(c)
    \/ get_gameweek_fixtures(c, 1)
    \/ get_live_gameweek(c, 2)
    \/ get_classic_league(c, 1)
    \/ get_h2h_league(c, 1)
    \/ get_user_picks(c, 1, 2)
    \/ fetched(c)
    \/ \E id \in Args : get_fixture(c, id)
    \/ all_fixtures_fetched(c)
    \/ gameweek_fixtures_fetched(c)

Next == \E c \in Callers : Step(c)

Spec == Init /\ [][Next]_vars

\* ---------------------------------------------------------- second client
\* the state of the first client
client == <<bootstrap_static, pc, op, arg, hit, local, sent, rcvd, used, last,
            static_gets, static_fails>>

\* mutant: the slot is one process-wide static shared by every client
OtherSlotHit_Global == bootstrap_static # None

\* The cached arm of get_bootstrap_static on the second client: `self` is
\* that client, and the slot is a field of its own struct
OtherSlotHit == other_bootstrap_static # None

\* get_bootstrap_static on the second client, up to its await
other_get_bootstrap_static ==
    /\ calls < MaxCalls
    /\ other_pc = "idle"
    /\ calls' = calls + 1
    /\ IF OtherSlotHit
       THEN /\ other_hits' = other_hits + 1
            /\ UNCHANGED <<other_pc, other_gets>>
       ELSE /\ other_pc' = "bootstrap_static"
            /\ other_gets' = other_gets + 1
            /\ UNCHANGED other_hits
    /\ UNCHANGED <<client, other_bootstrap_static>>

\* the second client's fetch completes: on Ok the value is stored in its
\* own slot, on Err the `?` returns before the store
other_bootstrap_static_fetched ==
    /\ other_pc = "bootstrap_static"
    /\ \E resp \in Responses("BootstrapStatic") :
         LET r == fetch("BootstrapStatic", BootstrapStaticUrl, resp) IN
         other_bootstrap_static' =
             IF r.kind = "Ok" THEN Some(r.val) ELSE other_bootstrap_static
    /\ other_pc' = "idle"
    /\ UNCHANGED <<client, calls, other_gets, other_hits>>

\* two clients created by two calls of Fpl::new(), used side by side
NextTwo ==
    \/ Next
    \/ other_get_bootstrap_static
    \/ other_bootstrap_static_fetched

SpecTwo == Init /\ [][NextTwo]_vars

\* ----------------------------------------------------------------- answers
\* a GET that was issued is answered: send() resolves to a response or to an
\* error, and the method suspended on it is resumed
Answer(c) ==
    \/ bootstrap_static_fetched(c)
    \/ fetched(c)
    \/ all_fixtures_fetched(c)
    \/ gameweek_fixtures_fetched(c)


\* the calls of one caller, one after the other, each GET answered: no call
\* waits for another call, so that other callers add nothing to its progress
NextLive == Step(1)

SpecLive == Init /\ [][NextLive]_vars /\ WF_vars(Answer(1))

\* ----------------------------------------------------------------- claims
InFlightStatic == {c \in Callers : pc[c] = "bootstrap_static"}
Populated == IF bootstrap_static # None THEN 1 ELSE 0
LastIsSnapshot == last.op \in SnapshotOps

\* C1 as stated: once a snapshot-backed accessor has returned, exactly one
\* GET to the bootstrap-static url has been issued in the client's lifetime.
C1_ExactlyOneStaticGet == LastIsSnapshot => static_gets = 1

\* C1 amended: the bootstrap-static url is requested until one fetch of it
\* succeeds and never after: every GET issued to it has failed, or is the one
\* that populated the slot, or is still in flight; at least one is issued
\* once a snapshot-backed accessor has returned.
C1_OneSuccessfulStaticGet ==
    /\ static_gets = static_fails + Populated + Cardinality(InFlightStatic)
    /\ LastIsSnapshot => static_gets >= 1
    /\ bootstrap_static # None => InFlightStatic = {}

\* a failed fetch, then the call whose fetch populates the slot
C1_Witness ==
    /\ last.op = "get_all_teams" /\ ~last.hit /\ last.ret.kind = "Ok"
    /\ bootstrap_static # None
    /\ static_fails = 1 /\ static_gets = 2

\* C2: a snapshot-backed call entered with the slot populated issues no
\* request and returns Ok with the same data as every earlier successful
\* call returns for the same arguments, which is the data derived from the
\* BootstrapStatic those calls read.
C2_Idempotent ==
    (LastIsSnapshot /\ last.hit) =>
        /\ last.sent = <<>> /\ last.rcvd = <<>>
        /\ last.ret.kind = "Ok"
        /\ \A d \in Callers :
             used[d] # None => last.ret.val = Derived(last.op, last.arg, used[d][1])

\* a cached get_team after another caller's successful call
C2_Witness ==
    /\ last.op = "get_team" /\ last.hit /\ last.arg = <<1>>
    /\ \E d \in Callers : d # last.caller /\ used[d] # None

\* C3 as stated: callers sharing a fresh client cause exactly one
\* bootstrap-static GET in total and every one of their calls returns data.
C3_ExactlyOneGetAllData ==
    /\ static_gets <= 1
    /\ LastIsSnapshot => last.ret.kind = "Ok"

\* C3 amended: of the bootstrap-static GETs that callers sharing a client
\* cause, at most one does not fail; every call that returns data has read
\* it from the one BootstrapStatic held in the slot.
C3_SingleFlight ==
    /\ static_gets - static_fails <= 1
    /\ \A c \in Callers : used[c] # None => used[c] = bootstrap_static
    /\ \A c, d \in Callers : used[c] # None /\ used[d] # None => used[c] = used[d]
    /\ (LastIsSnapshot /\ last.ret.kind = "Ok") =>
           last.ret.val = Derived(last.op, last.arg, bootstrap_static[1])

\* two callers have both got data, one of them from the fetch
C3_Witness ==
    /\ \A c \in {1, 2} : used[c] # None
    /\ static_gets >= 1
    /\ LastIsSnapshot /\ last.hit

\* C4: at most one bootstrap-static request is in flight, and while a caller
\* is between the slot check and the store of get_bootstrap_static no other
\* caller is inside any method of the client.
C4_OneInFlight ==
    /\ Cardinality(InFlightStatic) <= 1
    /\ \A c \in InFlightStatic : \A d \in Callers \ {c} : pc[d] = "idle"

\* a caller is fetching the dataset after another caller's fetch failed
C4_Witness ==
    \E c \in InFlightStatic :
        LastIsSnapshot /\ last.caller # c /\ last.ret.kind = "Err"

\* C5: a snapshot-backed call whose fetch failed leaves the slot empty, the
\* slot holds nothing but a decoded dataset, and every snapshot-backed call
\* entered with the slot empty issues a bootstrap-static GET.
C5_FailureLeavesSlotEmpty ==
    /\ (LastIsSnapshot /\ last.ret.kind = "Err") =>
           bootstrap_static = None /\ last.sent = <<BootstrapStaticUrl>>
    /\ bootstrap_static \in {None} \cup {Some(b) : b \in Snapshots}
    /\ (LastIsSnapshot /\ ~last.hit) => last.sent = <<BootstrapStaticUrl>>
    /\ \A c \in Callers :
         (pc[c] # "idle" /\ op[c] \in SnapshotOps) =>
             ~hit[c] /\ pc[c] = "bootstrap_static" /\ sent[c] = <<BootstrapStaticUrl>>

\* after a failed fetch the same caller's next call is fetching again
C5_Witness ==
    /\ LastIsSnapshot /\ last.ret.kind = "Err"
    /\ static_fails = 1 /\ static_gets = 2
    /\ pc[last.caller] = "bootstrap_static"

\* what the transport gave back for the k-th GET of the last returned call
\* was a 200 response with a decodable body
Decoded(k) ==
    /\ k <= Len(last.rcvd)
    /\ last.rcvd[k].sent /\ last.rcvd[k].status = 200
    /\ last.rcvd[k].body # Garbage
\* the fixture list decoded from it
ListOf(k) == last.rcvd[k].body[2]

LastIsFixture == last.op = "get_fixture"
\* positions of the records with the requested id in the k-th list
Matches(k) == {i \in DOMAIN ListOf(k) : ListOf(k)[i].id = last.arg[1]}
FirstMatch(k) == CHOOSE i \in Matches(k) : \A j \in Matches(k) : i <= j

\* the unscoped list does not lead to a gameweek
Unresolved ==
    Decoded(1) /\ (Matches(1) = {} \/ ListOf(1)[FirstMatch(1)].event = None)

\* C6 as stated: when the unscoped list holds no fixture with the id, or
\* the fixture has no event, get_fixture returns a failure value and issues
\* no gameweek-scoped request.
C6_UnresolvedGameweekIsReturned ==
    (LastIsFixture /\ Unresolved) =>
        last.ret.kind = "Err" /\ Len(last.sent) = 1

\* C7: when the list scoped to the fixture's gameweek is fetched and holds
\* no fixture with the id, get_fixture returns an Err and no fixture; the
\* Err differs from every Err that fetch can return for the two urls of
\* the call and from what the call delivers when the gameweek is unresolved.
C7_FixtureVanished ==
    (LastIsFixture /\ Decoded(2) /\ Matches(2) = {}) =>
        /\ last.ret.kind = "Err"
        /\ last.ret.val.msg.fmt = "Failed when parsing fixtures response."
        /\ \A k \in 1..2 : \A resp \in Responses("Fixtures") :
             LET r == fetch("Fixtures", last.sent[k], resp) IN
             r.kind = "Err" => r.val # last.ret.val
        /\ \A l \in FixtureLists : \A id \in Args :
             GameweekIdOf(l, id).kind # last.ret.kind

\* the fixture is in the unscoped list with event 2, the list scoped to
\* gameweek 2 is served without it
C7_Witness ==
    /\ LastIsFixture /\ Decoded(2) /\ Matches(2) = {}
    /\ last.sent[2] = GameweekFixturesUrl(2)
    /\ ListOf(2) # <<>>

\* C8 as stated: a successful get_fixture returns a record with the
\* requested id whose team and score fields equal those of the record of
\* the unscoped list.
C8_AgreesWithUnscopedRecord ==
    (LastIsFixture /\ last.ret.kind = "Ok") =>
        LET f == last.ret.val
            u == ListOf(1)[FirstMatch(1)] IN
        /\ f.id = last.arg[1]
        /\ f.team_h = u.team_h /\ f.team_a = u.team_a
        /\ f.team_h_score = u.team_h_score /\ f.team_a_score = u.team_a_score

\* C8 amended: a successful get_fixture returns one record, the first record
\* with the requested id of the gameweek-scoped list, so its id is the
\* requested one and its team and score fields are those of the scoped
\* list; get_fixture succeeds exactly when both lists were fetched, the
\* first led to a gameweek and the second holds the id.
C8_ReturnsScopedRecord ==
    LastIsFixture =>
        /\ last.ret.kind = "Ok" =>
             /\ Decoded(1) /\ Decoded(2) /\ Matches(2) # {}
             /\ last.ret.val = ListOf(2)[FirstMatch(2)]
             /\ last.ret.val.id = last.arg[1]
        /\ (Decoded(2) /\ Matches(2) # {}) => last.ret.kind = "Ok"

\* the returned record carries a score that the unscoped record lacks
C8_Witness ==
    /\ LastIsFixture /\ last.ret.kind = "Ok"
    /\ last.ret.val.team_h_score = Some(2)
    /\ ListOf(1)[FirstMatch(1)].team_h_score = None

\* C9: get_fixture requests the unscoped list first and then, only after
\* that fetch succeeded, the list scoped to the event of the first record
\* with the requested id; an Err of either fetch is what the call returns,
\* and after an Err of the first no second request is issued.
C9_TwoStepsInOrder ==
    /\ \A c \in Callers :
         /\ pc[c] = "all_fixtures" => sent[c] = <<FixturesUrl>> /\ rcvd[c] = <<>>
         /\ pc[c] = "gameweek_fixtures" =>
              /\ sent[c] = <<FixturesUrl, GameweekFixturesUrl(local[c])>>
              /\ Len(rcvd[c]) = 1
    /\ LastIsFixture =>
         /\ Len(last.sent) \in 1..2 /\ Len(last.rcvd) = Len(last.sent)
         /\ last.sent[1] = FixturesUrl
         /\ Len(last.sent) = 2 =>
              /\ Decoded(1) /\ Matches(1) # {}
              /\ ListOf(1)[FirstMatch(1)].event # None
              /\ last.sent[2] = GameweekFixturesUrl(ListOf(1)[FirstMatch(1)].event[1])
         /\ ~Decoded(1) =>
              /\ Len(last.sent) = 1
              /\ last.ret = fetch("Fixtures", FixturesUrl, last.rcvd[1])
              /\ last.ret.kind = "Err"
         /\ (Len(last.sent) = 2 /\ ~Decoded(2)) =>
              /\ last.ret = fetch("Fixtures", last.sent[2], last.rcvd[2])
              /\ last.ret.kind = "Err"

\* the second fetch, for gameweek 2 found in the first, failed on its status
C9_Witness ==
    /\ LastIsFixture /\ Len(last.sent) = 2
    /\ last.sent[2] = GameweekFixturesUrl(2) /\ last.arg = <<1>>
    /\ last.rcvd[2].sent /\ last.rcvd[2].status = 404
    /\ last.ret.kind = "Err"

\* the failure kind a caller reads off an FplError: the status format names
\* a StatusFailure, the error format names a TransportFailure or a
\* DecodeFailure according to the error text it carries
KindOf(e) ==
    IF e.msg.fmt = "Failed when making request to: {} with this status code: {}"
    THEN "StatusFailure"
    ELSE IF e.msg.fmt = "Failed when making request to: {} with this error: {}"
    THEN IF e.msg.err \in TransportErrs THEN "TransportFailure"
         ELSE IF e.msg.err \in DecodeErrs THEN "DecodeFailure"
         ELSE "Unknown"
    ELSE "Unknown"

\* the outcome class of what the transport gave back, by priority
ClassOf(resp) ==
    IF ~resp.sent THEN "TransportFailure"
    ELSE IF resp.status # 200 THEN "StatusFailure"
    ELSE IF resp.body = Garbage THEN "DecodeFailure"
    ELSE "Value"

\* C10: the outcome of the last GET of a returned call is classified by
\* priority: not sent gives a TransportFailure, else a status other than 200
\* gives a StatusFailure whatever the body, else an undecodable body gives a
\* DecodeFailure, and the call returns that failure, whose kind the caller
\* can read off it; else a one-fetch method returns the decoded value
\* unchanged.
C10_FetchClassifies ==
    last.rcvd # <<>> =>
        LET k == Len(last.rcvd)
            resp == last.rcvd[k] IN
        /\ ClassOf(resp) # "Value" =>
             /\ last.ret.kind = "Err"
             /\ KindOf(last.ret.val) = ClassOf(resp)
             /\ last.ret.val.msg.url = last.sent[k]
             /\ ClassOf(resp) = "StatusFailure" => last.ret.val.msg.code = resp.status
        /\ (ClassOf(resp) = "Value" /\ last.op \in FetchOps) =>
             last.ret = Ok(resp.body[2])
        /\ (last.ret.kind = "Err" /\ KindOf(last.ret.val) # "Unknown") =>
             KindOf(last.ret.val) = ClassOf(resp)

\* a 404 response whose body would decode is a StatusFailure
C10_Witness ==
    /\ last.op = "get_user" /\ last.ret.kind = "Err"
    /\ last.rcvd[1].sent /\ last.rcvd[1].status = 404 /\ last.rcvd[1].body # Garbage
    /\ KindOf(last.ret.val) = "StatusFailure"

\* ------------------------------------------------------- claims C11 - C20
\* C11 as stated: every failure a call returns carries the endpoint of the
\* GET that failed, a StatusFailure also the status code received, a
\* TransportFailure or DecodeFailure also the underlying error text.
C11_FailureCarriesEndpoint ==
    last.ret.kind = "Err" =>
        /\ last.sent # <<>>
        /\ last.ret.val.msg.url = last.sent[Len(last.sent)]
        /\ \/ last.ret.val.msg.code = last.rcvd[Len(last.rcvd)].status
           \/ last.ret.val.msg.err \in TransportErrs \cup DecodeErrs

\* number of fetch steps of a method
StepsOf(o) == IF o = "get_fixture" THEN 2 ELSE 1

\* C12: a call issues at most one GET per fetch step (at most two for
\* get_fixture, at most one for every other method, each to a different
\* url), a further GET is issued only after every earlier one of the call
\* gave a value, and once a GET of the call has failed the call issues none.
C12_NoRetries ==
    /\ \A c \in Callers :
         /\ Len(sent[c]) <= StepsOf(op[c])
         /\ pc[c] # "idle" => Len(rcvd[c]) = Len(sent[c]) - 1
         /\ \A k \in DOMAIN rcvd[c] : ClassOf(rcvd[c][k]) = "Value"
         /\ Len(sent[c]) = 2 => sent[c][1] # sent[c][2]
    /\ Len(last.sent) <= StepsOf(last.op)
    /\ Len(last.rcvd) = Len(last.sent)
    /\ \A k \in 1..(Len(last.rcvd) - 1) : ClassOf(last.rcvd[k]) = "Value"
    /\ Len(last.sent) = 2 => last.sent[1] # last.sent[2]

\* a one-fetch call whose only GET was not sent has returned the failure
C12_Witness ==
    /\ last.op = "get_live_gameweek" /\ last.ret.kind = "Err"
    /\ Len(last.sent) = 1 /\ ~last.rcvd[1].sent

\* the snapshot was available to the last returned call: it found the slot
\* populated, or its own fetch was decoded
Available == LastIsSnapshot /\ (last.hit \/ Decoded(1))
\* the snapshot that call read
SnapshotRead == IF last.hit THEN bootstrap_static[1] ELSE last.rcvd[1].body[2]
\* the records of the entity kind the call is about
RecordsRead ==
    CASE last.op \in {"get_team", "get_teams", "get_all_teams"} -> SnapshotRead.teams
      [] last.op \in {"get_player", "get_players", "get_all_players"} -> SnapshotRead.elements
      [] last.op \in {"get_static_gameweek", "get_static_gameweeks"} -> SnapshotRead.events
\* ids of a sequence of records
IdsOf(s) == {s[i].id : i \in DOMAIN s}

\* C13: when the snapshot is available to get_team, get_player or
\* get_static_gameweek and no record of the kind has the requested id, the
\* call returns Ok(None), not a failure and not some record.
C13_AbsentIsOkNone ==
    (Available /\ last.op \in {"get_team", "get_player", "get_static_gameweek"}) =>
        (last.arg[1] \notin IdsOf(RecordsRead) =>
            last.ret.kind = "Ok" /\ last.ret.val = None)

\* get_player(3) populated the snapshot, which has no player 3
C13_Witness ==
    /\ Available /\ last.op = "get_player" /\ ~last.hit
    /\ last.arg[1] \notin IdsOf(RecordsRead)
    /\ last.ret.kind = "Ok" /\ last.ret.val = None

\* C14: get_teams with an empty id list returns the full team sequence of
\* the snapshot in snapshot order, which is what get_all_teams returns.
C14_EmptyTeamIdsIsAll ==
    (Available /\ (last.op = "get_all_teams" \/ (last.op = "get_teams" /\ last.arg = <<>>))) =>
        last.ret.kind = "Ok" /\ last.ret.val = SnapshotRead.teams

\* get_teams([]) returned the three teams of the second dataset
C14_Witness ==
    /\ Available /\ last.op = "get_teams" /\ last.arg = <<>>
    /\ last.ret.kind = "Ok" /\ Len(last.ret.val) = 3

\* C15 as stated: get_players with an empty id list returns the full player
\* sequence of the snapshot, which is what get_all_players returns.
C15_EmptyPlayerIdsIsAll ==
    (Available /\ last.op = "get_players" /\ last.arg = <<>>) =>
        last.ret.kind = "Ok" /\ last.ret.val = SnapshotRead.elements

\* positions of the records whose id is among ids
Members(s, ids) == {i \in DOMAIN s : \E k \in DOMAIN ids : ids[k] = s[i].id}
\* r is s restricted to the positions I, in the order of s
Restricts(r, s, I) ==
    /\ Len(r) = Cardinality(I)
    /\ \A i \in I : r[Cardinality({m \in I : m <= i})] = s[i]

\* C16: for a non-empty id list, get_teams and get_players return exactly
\* the records of the snapshot whose id is in the list, in snapshot order;
\* an id with no record is left out and the call does not fail.
C16_SubsequenceByIds ==
    (Available /\ last.op \in {"get_teams", "get_players"} /\ last.arg # <<>>) =>
        /\ last.ret.kind = "Ok"
        /\ Restricts(last.ret.val, RecordsRead, Members(RecordsRead, last.arg))

\* get_players([3, 1]) on the second dataset: there is no player 3, and the
\* one player 1 is returned
C16_Witness ==
    /\ Available /\ last.op = "get_players" /\ last.arg = <<3, 1>>
    /\ Len(RecordsRead) = 3
    /\ last.ret.kind = "Ok" /\ Len(last.ret.val) = 1 /\ last.ret.val[1].id = 1

\* get_teams was called with two distinct ids that both occur in the snapshot
TwoValidIds ==
    /\ Available /\ last.op = "get_teams" /\ Len(last.arg) = 2
    /\ last.arg[1] # last.arg[2]
    /\ {last.arg[1], last.arg[2]} \subseteq IdsOf(RecordsRead)
\* number of team records with the id
Occurrences(id) == Cardinality({i \in DOMAIN RecordsRead : RecordsRead[i].id = id})

\* C17 as stated: get_teams([a, b]) with two distinct ids that both occur in
\* the snapshot returns exactly two records, whose ids are {a, b}.
C17_ExactlyTwoRecords ==
    TwoValidIds =>
        /\ last.ret.kind = "Ok"
        /\ Len(last.ret.val) = 2
        /\ IdsOf(last.ret.val) = {last.arg[1], last.arg[2]}

\* C17 amended: get_teams([a, b]) with two distinct ids that both occur in
\* the snapshot returns one record for every team record whose id is a or
\* b, the ids of the returned records are {a, b}, and they are exactly two
\* when a and b each occur once in the snapshot.
C17_TwoWhenIdsUnique ==
    TwoValidIds =>
        /\ last.ret.kind = "Ok"
        /\ IdsOf(last.ret.val) = {last.arg[1], last.arg[2]}
        /\ Len(last.ret.val) = Occurrences(last.arg[1]) + Occurrences(last.arg[2])
        /\ (Occurrences(last.arg[1]) = 1 /\ Occurrences(last.arg[2]) = 1) =>
             Len(last.ret.val) = 2

\* get_teams([2, 1]) on the first dataset returned the two teams
C17_Witness ==
    /\ TwoValidIds /\ Occurrences(1) = 1 /\ Occurrences(2) = 1
    /\ last.ret.kind = "Ok" /\ Len(last.ret.val) = 2

\* C18: get_all_teams, get_all_players and get_static_gameweeks return the
\* snapshot's sequence of their kind as it is, on the call that populates
\* the snapshot and on the calls that find it populated.
C18_AllInSnapshotOrder ==
    (Available /\ last.op \in {"get_all_teams", "get_all_players", "get_static_gameweeks"}) =>
        last.ret.kind = "Ok" /\ last.ret.val = RecordsRead

\* get_static_gameweeks found the slot populated with the second dataset and
\* returned its three events, gameweek 2 first
C18_Witness ==
    /\ Available /\ last.op = "get_static_gameweeks" /\ last.hit
    /\ last.ret.kind = "Ok" /\ Len(last.ret.val) = 3 /\ last.ret.val[1].id = 2

\* C19 as stated: every call ends by returning to its caller a value, an
\* absent result (by-id lookups only) or a failure; none ends in a panic.
C19_AlwaysReturns ==
    last # NoCall => last.ret.kind \in {"Ok", "Err"}

\* C20: a step of the first client leaves the second client's slot as it
\* is, the second client's slot changes only when its own fetch completes,
\* and the second client takes the cached arm only when its own slot is
\* populated by a fetch it issued itself, whatever the first client's slot
\* holds.
C20_ClientsIndependent ==
    [][ /\ client' # client => other_bootstrap_static' = other_bootstrap_static
        /\ other_bootstrap_static' # other_bootstrap_static =>
             other_pc = "bootstrap_static" /\ other_pc' = "idle"
        /\ other_hits' # other_hits =>
             other_bootstrap_static # None /\ other_gets >= 1
        /\ (other_gets = 0 /\ other_hits + other_gets # other_hits' + other_gets') =>
             other_gets' = 1 ]_vars

\* the first client's slot is populated and the second client, its slot
\* empty, is fetching the dataset itself
C20_Witness ==
    /\ bootstrap_static # None
    /\ other_bootstrap_static = None
    /\ other_pc = "bootstrap_static" /\ other_gets = 1

\* ------------------------------------------------------- claims C21 - C30
\* C21: every get_live_gameweek call issues its own GET to the live url of
\* its gameweek, whatever was returned before and whatever the slot holds,
\* and a decoded response is returned as the value of that very call.
C21_LiveNeverMemoized ==
    /\ \A c \in Callers :
         op[c] = "get_live_gameweek" =>
             sent[c] = <<Url("api/event/{}/live", arg[c][1], 0)>>
    /\ last.op = "get_live_gameweek" =>
         /\ last.sent = <<Url("api/event/{}/live", last.arg[1], 0)>>
         /\ Len(last.rcvd) = 1
         /\ ClassOf(last.rcvd[1]) = "Value" =>
              last.ret.kind = "Ok" /\ last.ret.val = last.rcvd[1].body[2]

\* a caller whose get_live_gameweek call succeeded has called it again for
\* the same gameweek, and the GET of the new call is in flight
C21_Witness ==
    /\ last.op = "get_live_gameweek" /\ last.ret.kind = "Ok"
    /\ pc[last.caller] = "fetch" /\ op[last.caller] = "get_live_gameweek"
    /\ arg[last.caller] = last.arg /\ Len(sent[last.caller]) = 1

\* C22: when the upstream answers the GET of get_user(user_id) with the
\* record of the entry the url names, the call returns a record whose id is
\* user_id.
C22_UserIdMatches ==
    (last.op = "get_user" /\ Decoded(1) /\ last.rcvd[1].body[2].id = last.sent[1].a) =>
        last.ret.kind = "Ok" /\ last.ret.val.id = last.arg[1]

\* get_user(2) returned the record of entry 2
C22_Witness ==
    /\ last.op = "get_user" /\ last.arg = <<2>>
    /\ last.ret.kind = "Ok" /\ last.ret.val.id = 2

\* C23: the slot changes only from empty to populated, in the step in which
\* a fetch of the static dataset returns a decoded 200 response, and to
\* exactly the decoded value; every such step populates it; no other step
\* changes it.
C23_SlotSetOnce ==
    [][ /\ bootstrap_static' # bootstrap_static =>
             /\ bootstrap_static = None
             /\ last'.op \in SnapshotOps /\ ~last'.hit /\ Len(last'.rcvd) = 1
             /\ last'.rcvd[1].sent /\ last'.rcvd[1].status = 200
             /\ last'.rcvd[1].body # Garbage
             /\ bootstrap_static' = Some(last'.rcvd[1].body[2])
        /\ \A c \in Callers :
             (pc[c] = "bootstrap_static" /\ pc'[c] = "idle"
                /\ ClassOf(last'.rcvd[1]) = "Value") =>
                 bootstrap_static' = Some(last'.rcvd[1].body[2]) ]_vars

\* after a failed fetch, the first decoded response populated the slot
C23_Witness ==
    /\ static_fails = 1 /\ last.op = "get_all_players" /\ ~last.hit
    /\ Decoded(1) /\ bootstrap_static = Some(last.rcvd[1].body[2])

\* positions of the records with the requested id
Positions == {i \in DOMAIN RecordsRead : RecordsRead[i].id = last.arg[1]}

\* C24: when the snapshot has records with the requested id, get_team,
\* get_player and get_static_gameweek return the one at the lowest position,
\* also when there are several.
C24_FirstOfDuplicates ==
    (Available /\ last.op \in {"get_team", "get_player", "get_static_gameweek"}
       /\ Positions # {}) =>
        /\ last.ret.kind = "Ok"
        /\ \E i \in Positions :
             /\ \A j \in Positions : i <= j
             /\ last.ret.val = <<RecordsRead[i]>>

\* get_team(2) on the dataset with two teams of id 2 returned the earlier one
C24_Witness ==
    /\ Available /\ last.op = "get_team" /\ last.arg = <<2>>
    /\ Cardinality(Positions) = 2
    /\ last.ret.kind = "Ok" /\ last.ret.val[1].name = "Aston Villa"

\* the accessors that derive their result from the snapshot
DerivedOps == SnapshotOps \ {"get_bootstrap_static"}

\* C25: when a derived accessor found the slot empty and the fetch of the
\* static dataset failed, the accessor returns the failure fetch produced for
\* that response, unchanged.
C25_FailureVerbatim ==
    (last.op \in DerivedOps /\ ~last.hit /\ Len(last.rcvd) = 1
       /\ ClassOf(last.rcvd[1]) # "Value") =>
        /\ last.ret.kind = "Err"
        /\ last.ret.val =
             fetch("BootstrapStatic", Url("api/bootstrap-static/", 0, 0), last.rcvd[1]).val

\* get_static_gameweek returned the DecodeFailure of the fetch it made
C25_Witness ==
    /\ last.op = "get_static_gameweek" /\ last.ret.kind = "Err"
    /\ KindOf(last.ret.val) = "DecodeFailure"
    /\ last.ret.val.msg.url = Url("api/bootstrap-static/", 0, 0)

\* the steps a call may take from one suspension point to the next
Forward ==
    {<<"idle", "bootstrap_static">>, <<"idle", "fetch">>, <<"idle", "all_fixtures">>,
     <<"bootstrap_static", "idle">>, <<"fetch", "idle">>, <<"all_fixtures", "idle">>,
     <<"all_fixtures", "gameweek_fixtures">>, <<"gameweek_fixtures", "idle">>}

\* C26: when every issued GET is answered, every call in progress returns;
\* a call only moves forward (get_fixture from its first GET to its second,
\* never back), every GET it issues takes it to a new suspension point, and
\* it issues at most two.
C26_Terminates ==
    /\ \A c \in Callers : (pc[c] # "idle") ~> (pc[c] = "idle")
    /\ [][ \A c \in Callers :
             /\ pc'[c] # pc[c] => <<pc[c], pc'[c]>> \in Forward
             /\ (sent'[c] # sent[c] /\ sent'[c] # <<>>) => pc'[c] \notin {pc[c], "idle"}
             /\ Len(sent'[c]) <= 2 ]_vars

\* a get_fixture call has returned after its two round trips
C26_Witness ==
    /\ last.op = "get_fixture" /\ pc[last.caller] = "idle"
    /\ Len(last.sent) = 2 /\ Len(last.rcvd) = 2

\* the methods that are not snapshot-backed
NonSnapshotOps == FetchOps \cup {"get_fixture"}

\* C27: a step of a call of a method that is not snapshot-backed leaves the
\* slot and the number of GETs to the bootstrap-static url as they are, and
\* no url the call requests is the bootstrap-static url.
C27_SlotUntouched ==
    [][ \A c \in Callers :
          ((op[c] \in NonSnapshotOps \/ op'[c] \in NonSnapshotOps) /\ pc'[c] # pc[c]) =>
              /\ bootstrap_static' = bootstrap_static
              /\ static_gets' = static_gets
              /\ \A k \in DOMAIN sent'[c] : sent'[c][k].path # "api/bootstrap-static/"
              /\ \A k \in DOMAIN last'.sent :
                   last'.op \in NonSnapshotOps => last'.sent[k].path # "api/bootstrap-static/" ]_vars

\* get_fixture returned a fixture and the slot is still populated
C27_Witness ==
    /\ bootstrap_static # None
    /\ last.op = "get_fixture" /\ last.ret.kind = "Ok"

\* C28: a snapshot-backed call that finds the slot populated returns a value
\* (or the absent result) without issuing a request, so that no answer of
\* the transport can make it fail; no such call is ever suspended on a fetch.
C28_PopulatedNeverFails ==
    /\ (LastIsSnapshot /\ last.hit) =>
         last.ret.kind = "Ok" /\ last.sent = <<>> /\ last.rcvd = <<>>
    /\ \A c \in Callers : pc[c] = "bootstrap_static" => ~hit[c]

\* get_player found the slot populated and returned a player without a GET
C28_Witness ==
    /\ last.op = "get_player" /\ last.hit
    /\ last.ret.kind = "Ok" /\ last.ret.val # None /\ last.sent = <<>>

\* the set of the ids of a list
SetOf(ids) == {ids[k] : k \in DOMAIN ids}
\* how often x occurs in s
Count(x, s) == Cardinality({i \in DOMAIN s : s[i] = x})

\* C29: for a non-empty list, get_teams and get_players return what they
\* return for any other list with the same set of ids; no record is
\* returned more often than the snapshot holds it; the records come in the
\* order of the snapshot.
C29_DependsOnIdSet ==
    (Available /\ last.op \in {"get_teams", "get_players"} /\ last.arg # <<>>) =>
        /\ last.ret.kind = "Ok"
        /\ \A ids \in IdLists :
             (ids # <<>> /\ SetOf(ids) = SetOf(last.arg)) =>
                 last.ret.val = Derived(last.op, ids, SnapshotRead)
        /\ \A i \in DOMAIN last.ret.val :
             Count(last.ret.val[i], last.ret.val) <= Count(last.ret.val[i], RecordsRead)
        /\ \E f \in [DOMAIN last.ret.val -> DOMAIN RecordsRead] :
             /\ \A i \in DOMAIN last.ret.val : RecordsRead[f[i]] = last.ret.val[i]
             /\ \A i, j \in DOMAIN last.ret.val : i < j => f[i] < f[j]

\* get_teams([1, 2]) on the dataset that lists a team 2 first returned the
\* three teams in the order of the dataset
C29_Witness ==
    /\ Available /\ last.op = "get_teams" /\ last.arg = <<1, 2>>
    /\ last.ret.kind = "Ok" /\ Len(last.ret.val) = 3 /\ last.ret.val[1].id = 2

\* C30: the second GET of get_fixture is for the event of the first record
\* with the requested id in the unscoped list; when that record has no event
\* there is no second GET, whatever later records with the id hold; and when
\* the scoped list has records with the id, the first of them is returned.
C30_FirstByPosition ==
    (LastIsFixture /\ Decoded(1) /\ Matches(1) # {}) =>
        /\ ListOf(1)[FirstMatch(1)].event = None => Len(last.sent) = 1
        /\ ListOf(1)[FirstMatch(1)].event # None =>
             /\ Len(last.sent) = 2
             /\ last.sent[2] =
                  Url("api/fixtures/?event={}", ListOf(1)[FirstMatch(1)].event[1], 0)
             /\ (Decoded(2) /\ Matches(2) # {}) =>
                  last.ret.kind = "Ok" /\ last.ret.val = ListOf(2)[FirstMatch(2)]

\* both lists held two fixtures with the requested id: the second GET was
\* for gameweek 2 and the call returned the earlier of the two scoped ones
C30_Witness ==
    /\ LastIsFixture /\ Decoded(1) /\ Decoded(2)
    /\ Cardinality(Matches(1)) = 2 /\ Cardinality(Matches(2)) = 2
    /\ last.sent[2].a = 2
    /\ last.ret.kind = "Ok" /\ last.ret.val.event = <<2>>

====
